---- MODULE Spec2Model ----
(***************************************************************************)
(* Model of rmbrr (win-rmdir-fast): parallel bottom-up directory deletion. *)
(*   src/src/main.rs    the driver (main)                                  *)
(*   src/src/tree.rs    discover_tree / scan_recursive                     *)
(*   src/src/broker.rs  Broker::new / Broker::mark_complete                *)
(*   src/src/worker.rs  spawn_workers / worker_thread                      *)
(*   src/src/winapi.rs  remove_dir / delete_file / enumerate_files         *)
(* Directories are numbered 1..n, 1 is the requested root and every other  *)
(* directory has a smaller-numbered parent, so that the numeric order is a *)
(* sort order in which a path precedes the paths below it.                 *)
(***************************************************************************)
EXTENDS Integers, Sequences, FiniteSets, TLC

\* Bounds of the model.
MaxDirs == 3
MaxWorkers == 2
MaxFailing == 1
MaxUnreadable == 1
MaxCalls == 3
MaxFiles == 2

Workers == 1..MaxWorkers
NoDir == 0

VARIABLES
    \* the command line and the filesystem the program is started on
    args,          \* [pathKind, dry_run, threads]            main.rs Args
    fsParent,      \* directory -> its parent on disk (root -> 0)
    failing,       \* directories whose removal is refused by the OS
    unreadable,    \* directories whose enumeration fails
    removed,       \* directories physically removed so far
    files,         \* directory -> the files it holds when the program starts
    locked,        \* directory -> those of its files whose deletion fails
    tried,         \* directory -> files delete_file_fast has been called on
    \* the driver
    mainPc,        \* position of main()
    gateCalls,     \* number of invocations of safety::check_path_safety
    tree,          \* the DirectoryTree returned by discover_tree
    spawned,       \* number of worker threads spawned so far
    callerTx,      \* main still holds the Sender returned by Broker::new
    \* the broker
    child_counts,  \* Broker.child_counts
    parent_map,    \* Broker.parent_map
    work_tx,       \* Broker.work_tx is Some(..)
    total_dirs,    \* Broker.total_dirs
    completed,     \* Broker.completed
    countsLock,    \* holder of the child_counts mutex (0: free)
    queue,         \* messages in the crossbeam channel
    \* the workers
    pc,            \* position of each worker thread
    cur,           \* `dir` of each worker
    localCompleted,\* `completed` local of mark_complete
    localParent,   \* `parent_path` local of mark_complete
    \* observation of the run (history)
    sentNew,       \* directory -> sends performed by Broker::new
    sentMark,      \* directory -> sends performed by mark_complete
    recvCount,     \* directory -> successful rx.recv() results
    markCalls,     \* directory -> calls of mark_complete
    attempts,      \* directory -> calls of remove_dir_fast
    observers,     \* mark_complete calls whose increment returned total_dirs
    closes         \* executions of `*work_tx = None`

fileVars == <<files, locked, tried>>
fsVars == <<args, fsParent, failing, unreadable, removed, fileVars>>
mainVars == <<mainPc, gateCalls, tree, spawned, callerTx>>
brokerVars == <<child_counts, parent_map, work_tx, total_dirs, completed, countsLock, queue>>
workerVars == <<pc, cur, localCompleted, localParent>>
histVars == <<sentNew, sentMark, recvCount, markCalls, attempts, observers, closes>>
vars == <<fsVars, mainVars, brokerVars, workerVars, histVars>>

----------------------------------------------------------------------------
\* Helpers.

AllDirs == 1..MaxDirs

FsDirs == DOMAIN fsParent

FsChildren(d) == {c \in FsDirs : fsParent[c] = d}

\* The filesystems considered: every rooted tree on 1..n.
FsTrees(n) == {p \in [1..n -> 0..n] : p[1] = 0 /\ \A d \in 2..n : p[d] >= 1 /\ p[d] < d}

Min(S) == CHOOSE x \in S : \A y \in S : x <= y

RECURSIVE SortedSeq(_)
SortedSeq(S) == IF S = {} THEN <<>> ELSE <<Min(S)>> \o SortedSeq(S \ {Min(S)})

Range(s) == {s[i] : i \in 1..Len(s)}

Restrict(f, S) == [x \in S |-> f[x]]

\* The orders in which the elements of S can be listed.
Perms(S) == {s \in [1..Cardinality(S) -> S] : Range(s) = S}

EmptyFn == [x \in {} |-> 0]

Zeros == [d \in AllDirs |-> 0]

Occurrences(s, d) == Cardinality({i \in 1..Len(s) : s[i] = d})

----------------------------------------------------------------------------
\* Tree discovery (tree.rs).

\* all_dirs after scan_recursive(d): d itself and, unless enumerating d
\* failed, everything found below its child directories.
RECURSIVE scan_recursive(_, _, _)
scan_recursive(fp, unr, d) ==
    {d} \cup (IF d \in unr THEN {}
              ELSE UNION {scan_recursive(fp, unr, c) : c \in {x \in DOMAIN fp : fp[x] = d}})

\* has_children: the scanned directories whose enumeration succeeded and
\* yielded at least one child directory.
has_children(fp, unr, all) ==
    {d \in all : d \notin unr /\ {x \in DOMAIN fp : fp[x] = d} # {}}

\* discover_tree taking as leaves the directories without subdirectories on
\* disk, whether or not they could be read.
discover_tree_fsleaves(fp, unr) ==
    LET all == scan_recursive(fp, unr, 1)
        hc == has_children(fp, unr, all)
    IN [dirs |-> SortedSeq(all),
        children |-> [d \in hc |-> SortedSeq({x \in DOMAIN fp : fp[x] = d})],
        leaves |-> SortedSeq({d \in all : {x \in DOMAIN fp : fp[x] = d} = {}})]

\* tree.rs:39-66  discover_tree
discover_tree(fp, unr) ==
    LET all == scan_recursive(fp, unr, 1)
        hc == has_children(fp, unr, all)
    IN [dirs |-> SortedSeq(all),
        children |-> [d \in hc |-> SortedSeq({x \in DOMAIN fp : fp[x] = d})],
        leaves |-> SortedSeq(all \ hc)]

DirectoryTree_new == [dirs |-> <<>>, children |-> EmptyFn, leaves |-> <<>>]

TreeDirs == Range(tree.dirs)

TreeChildren(d) == IF d \in DOMAIN tree.children THEN Range(tree.children[d]) ELSE {}

TreeParent(d) ==
    IF \E p \in DOMAIN tree.children : d \in Range(tree.children[p])
    THEN CHOOSE p \in DOMAIN tree.children : d \in Range(tree.children[p])
    ELSE NoDir

RECURSIVE Ancestors(_)
Ancestors(d) ==
    IF TreeParent(d) = NoDir THEN {} ELSE {TreeParent(d)} \cup Ancestors(TreeParent(d))

Descendants(d) == {x \in TreeDirs : d \in Ancestors(x)}

----------------------------------------------------------------------------
\* Deletion primitives (winapi.rs).

\* delete_file succeeds on a file that is not locked; the files still in d
\* are those never tried and those whose deletion failed.
Present(d) == {f \in files[d] : f \notin tried[d] \/ f \in locked[d]}

\* Removing a directory succeeds when the OS does not refuse it, it still
\* exists and neither a child directory nor a file is left in it.
remove_dir(d) ==
    /\ d \notin failing
    /\ d \notin removed
    /\ FsChildren(d) \subseteq removed
    /\ Present(d) = {}

\* The channel is disconnected once every Sender has been dropped.
Disconnected == ~work_tx /\ ~callerTx

----------------------------------------------------------------------------
\* The state of the program when main is entered.
ProgramInit ==
    /\ mainPc = "start"
    /\ gateCalls = 0
    /\ tree = DirectoryTree_new
    /\ spawned = 0
    /\ callerTx = FALSE
    /\ child_counts = EmptyFn
    /\ parent_map = EmptyFn
    /\ work_tx = FALSE
    /\ total_dirs = 0
    /\ completed = 0
    /\ countsLock = 0
    /\ queue = <<>>
    /\ pc = [w \in Workers |-> "NotSpawned"]
    /\ cur = [w \in Workers |-> NoDir]
    /\ localCompleted = [w \in Workers |-> 0]
    /\ localParent = [w \in Workers |-> NoDir]
    /\ sentNew = Zeros
    /\ sentMark = Zeros
    /\ recvCount = Zeros
    /\ markCalls = Zeros
    /\ attempts = Zeros
    /\ observers = 0
    /\ closes = 0

Init ==
    /\ args \in [pathKind : {"missing", "file", "dir"},
                 dry_run : BOOLEAN,
                 threads : 0..MaxWorkers]
    /\ \E n \in 1..MaxDirs : fsParent \in FsTrees(n)
    /\ failing \in {S \in SUBSET FsDirs : Cardinality(S) <= MaxFailing}
    /\ unreadable \in {S \in SUBSET FsDirs : Cardinality(S) <= MaxUnreadable}
    /\ removed = {}
    /\ files = [d \in FsDirs |-> {}]
    /\ locked = [d \in FsDirs |-> {}]
    /\ tried = [d \in FsDirs |-> {}]
    /\ ProgramInit

----------------------------------------------------------------------------
\* The driver (main.rs).

\* main.rs:30-57  argument validation; a missing path or a non-directory
\* exits with status 1.
MainValidate ==
    /\ mainPc = "start"
    /\ mainPc' = IF args.pathKind = "dir" THEN "scan" ELSE "exit_error"
    /\ UNCHANGED <<fsVars, gateCalls, tree, spawned, callerTx, brokerVars, workerVars, histVars>>

\* main going on to the deletion phases in a dry run.
MainDiscover_nodry ==
    /\ mainPc = "scan"
    /\ tree' = discover_tree(fsParent, unreadable)
    /\ mainPc' = "broker_new"
    /\ UNCHANGED <<fsVars, gateCalls, spawned, callerTx, brokerVars, workerVars, histVars>>

\* main.rs:59-82  Phase 1, and the early return of a dry run.
MainDiscover ==
    /\ mainPc = "scan"
    /\ tree' = discover_tree(fsParent, unreadable)
    /\ mainPc' = IF args.dry_run THEN "dry_done" ELSE "broker_new"
    /\ UNCHANGED <<fsVars, gateCalls, spawned, callerTx, brokerVars, workerVars, histVars>>

\* Broker::new seeding the channel with every directory instead of the leaves.
Broker_new_alldirs ==
    /\ mainPc = "broker_new"
    /\ total_dirs' = Len(tree.dirs)
    /\ child_counts' = [p \in DOMAIN tree.children |-> Len(tree.children[p])]
    /\ parent_map' = [c \in UNION {Range(tree.children[p]) : p \in DOMAIN tree.children}
                        |-> TreeParent(c)]
    /\ work_tx' = TRUE
    /\ callerTx' = TRUE
    /\ completed' = 0
    /\ queue' = tree.dirs
    /\ sentNew' = [d \in AllDirs |-> Occurrences(tree.dirs, d)]
    /\ mainPc' = "spawn"
    /\ UNCHANGED <<fsVars, gateCalls, tree, spawned, countsLock, workerVars,
                   sentMark, recvCount, markCalls, attempts, observers, closes>>

\* Broker::new leaving its seeding loop after the first leaf.
Broker_new_firstleaf ==
    /\ mainPc = "broker_new"
    /\ total_dirs' = Len(tree.dirs)
    /\ child_counts' = [p \in DOMAIN tree.children |-> Len(tree.children[p])]
    /\ parent_map' = [c \in UNION {Range(tree.children[p]) : p \in DOMAIN tree.children}
                        |-> TreeParent(c)]
    /\ work_tx' = TRUE
    /\ callerTx' = TRUE
    /\ completed' = 0
    /\ queue' = SubSeq(tree.leaves, 1, 1)
    /\ sentNew' = [d \in AllDirs |-> Occurrences(SubSeq(tree.leaves, 1, 1), d)]
    /\ mainPc' = "spawn"
    /\ UNCHANGED <<fsVars, gateCalls, tree, spawned, countsLock, workerVars,
                   sentMark, recvCount, markCalls, attempts, observers, closes>>

\* Broker::new inserting a count for every directory, leaves included.
Broker_new_countall ==
    /\ mainPc = "broker_new"
    /\ total_dirs' = Len(tree.dirs)
    /\ child_counts' = [p \in Range(tree.dirs) |->
                           IF p \in DOMAIN tree.children THEN Len(tree.children[p]) ELSE 0]
    /\ parent_map' = [c \in UNION {Range(tree.children[p]) : p \in DOMAIN tree.children}
                        |-> TreeParent(c)]
    /\ work_tx' = TRUE
    /\ callerTx' = TRUE
    /\ completed' = 0
    /\ queue' = tree.leaves
    /\ sentNew' = [d \in AllDirs |-> Occurrences(tree.leaves, d)]
    /\ mainPc' = "spawn"
    /\ UNCHANGED <<fsVars, gateCalls, tree, spawned, countsLock, workerVars,
                   sentMark, recvCount, markCalls, attempts, observers, closes>>

\* Broker::new seeding the channel from a sorted collection of the leaves
\* instead of in the order of the vector it was given.
Broker_new_sorted ==
    /\ mainPc = "broker_new"
    /\ total_dirs' = Len(tree.dirs)
    /\ child_counts' = [p \in DOMAIN tree.children |-> Len(tree.children[p])]
    /\ parent_map' = [c \in UNION {Range(tree.children[p]) : p \in DOMAIN tree.children}
                        |-> TreeParent(c)]
    /\ work_tx' = TRUE
    /\ callerTx' = TRUE
    /\ completed' = 0
    /\ queue' = SortedSeq(Range(tree.leaves))
    /\ sentNew' = [d \in AllDirs |-> Occurrences(tree.leaves, d)]
    /\ mainPc' = "spawn"
    /\ UNCHANGED <<fsVars, gateCalls, tree, spawned, countsLock, workerVars,
                   sentMark, recvCount, markCalls, attempts, observers, closes>>

\* broker.rs:24-55  Broker::new, called at main.rs:85.
Broker_new ==
    /\ mainPc = "broker_new"
    /\ total_dirs' = Len(tree.dirs)
    /\ child_counts' = [p \in DOMAIN tree.children |-> Len(tree.children[p])]
    /\ parent_map' = [c \in UNION {Range(tree.children[p]) : p \in DOMAIN tree.children}
                        |-> TreeParent(c)]
    /\ work_tx' = TRUE
    /\ callerTx' = TRUE
    /\ completed' = 0
    /\ queue' = tree.leaves
    /\ sentNew' = [d \in AllDirs |-> Occurrences(tree.leaves, d)]
    /\ mainPc' = "spawn"
    /\ UNCHANGED <<fsVars, gateCalls, tree, spawned, countsLock, workerVars,
                   sentMark, recvCount, markCalls, attempts, observers, closes>>

\* worker.rs:19-28  one iteration of the spawning loop of spawn_workers.
spawn_workers ==
    /\ mainPc = "spawn"
    /\ spawned < args.threads
    /\ spawned' = spawned + 1
    /\ pc' = [pc EXCEPT ![spawned + 1] = "AwaitWork"]
    /\ UNCHANGED <<fsVars, mainPc, gateCalls, tree, callerTx, brokerVars,
                   cur, localCompleted, localParent, histVars>>

\* main forgetting drop(tx).
MainDropTx_keep ==
    /\ mainPc = "spawn"
    /\ spawned = args.threads
    /\ mainPc' = "join"
    /\ UNCHANGED <<fsVars, gateCalls, tree, spawned, callerTx, brokerVars, workerVars, histVars>>

\* main.rs:94  drop(tx), once spawn_workers has returned.
MainDropTx ==
    /\ mainPc = "spawn"
    /\ spawned = args.threads
    /\ callerTx' = FALSE
    /\ mainPc' = "join"
    /\ UNCHANGED <<fsVars, gateCalls, tree, spawned, brokerVars, workerVars, histVars>>

\* main printing its final message without waiting for the workers.
MainJoin_nowait ==
    /\ mainPc = "join"
    /\ mainPc' = "done"
    /\ UNCHANGED <<fsVars, gateCalls, tree, spawned, callerTx, brokerVars, workerVars, histVars>>

\* main.rs:102-136  join every handle and, unless --silent was given, the
\* progress thread, which ends once completed_count() >= total; then print
\* "Deletion complete!". The flag is read nowhere else in the deletion phases.
MainJoin ==
    /\ mainPc = "join"
    /\ \A w \in 1..spawned : pc[w] = "Stopped"
    /\ \E silent \in BOOLEAN : silent \/ completed >= total_dirs
    /\ mainPc' = "done"
    /\ UNCHANGED <<fsVars, gateCalls, tree, spawned, callerTx, brokerVars, workerVars, histVars>>

MainStep ==
    \/ MainValidate
    \/ MainDiscover
    \/ Broker_new
    \/ spawn_workers
    \/ MainDropTx
    \/ MainJoin

----------------------------------------------------------------------------
\* The workers (worker.rs) and Broker::mark_complete (broker.rs).

Bump(f, d) == [f EXCEPT ![d] = @ + 1]

\* Return from mark_complete (or `continue`) to the top of the worker's loop.
BackToAwait(w) ==
    /\ pc' = [pc EXCEPT ![w] = "AwaitWork"]
    /\ cur' = [cur EXCEPT ![w] = NoDir]
    /\ localCompleted' = [localCompleted EXCEPT ![w] = 0]
    /\ localParent' = [localParent EXCEPT ![w] = NoDir]

\* worker.rs:34-35  rx.recv() yields a directory.
RecvWork(w) ==
    /\ pc[w] = "AwaitWork"
    /\ queue # <<>>
    /\ cur' = [cur EXCEPT ![w] = Head(queue)]
    /\ queue' = Tail(queue)
    /\ recvCount' = Bump(recvCount, Head(queue))
    /\ pc' = [pc EXCEPT ![w] = "DeleteContents"]
    /\ UNCHANGED <<fsVars, mainVars, child_counts, parent_map, work_tx, total_dirs,
                   completed, countsLock, localCompleted, localParent,
                   sentNew, sentMark, markCalls, attempts, observers, closes>>

\* worker.rs:36  rx.recv() fails: the channel is empty and disconnected.
RecvClosed(w) ==
    /\ pc[w] = "AwaitWork"
    /\ queue = <<>>
    /\ Disconnected
    /\ pc' = [pc EXCEPT ![w] = "Stopped"]
    /\ UNCHANGED <<fsVars, mainVars, brokerVars, cur, localCompleted, localParent, histVars>>

\* worker.rs:58-67  delete_files_in_dir(d) visiting the entries in the order
\* `order`, from entry i on: delete_file_fast is called on every file and its
\* failure is only logged (the callback returns Ok(())). Yields the files
\* delete_file_fast was called on.
RECURSIVE delete_files_in_dir(_, _, _)
delete_files_in_dir(d, order, i) ==
    IF i > Len(order) THEN {}
    ELSE {order[i]} \cup delete_files_in_dir(d, order, i + 1)

\* delete_files_in_dir whose callback hands the failure of delete_file_fast
\* back to the enumeration, which stops at it.
RECURSIVE delete_files_in_dir_abort(_, _, _)
delete_files_in_dir_abort(d, order, i) ==
    IF i > Len(order) THEN {}
    ELSE IF order[i] \in locked[d] THEN {order[i]}
    ELSE {order[i]} \cup delete_files_in_dir_abort(d, order, i + 1)

\* The worker giving up the first file deletion that fails.
DeleteContents_abort(w) ==
    /\ pc[w] = "DeleteContents"
    /\ IF cur[w] \in unreadable
       THEN UNCHANGED tried
       ELSE \E order \in Perms(files[cur[w]]) :
                tried' = [tried EXCEPT ![cur[w]] = @ \cup delete_files_in_dir_abort(cur[w], order, 1)]
    /\ pc' = [pc EXCEPT ![w] = "RemoveDirectory"]
    /\ UNCHANGED <<args, fsParent, failing, unreadable, removed, files, locked,
                   mainVars, brokerVars, cur, localCompleted, localParent, histVars>>

\* worker.rs:39-43  delete_files_in_dir; when the enumeration itself fails
\* nothing is deleted; either way the result is only logged.
DeleteContents(w) ==
    /\ pc[w] = "DeleteContents"
    /\ IF cur[w] \in unreadable
       THEN UNCHANGED tried
       ELSE \E order \in Perms(files[cur[w]]) :
                tried' = [tried EXCEPT ![cur[w]] = @ \cup delete_files_in_dir(cur[w], order, 1)]
    /\ pc' = [pc EXCEPT ![w] = "RemoveDirectory"]
    /\ UNCHANGED <<args, fsParent, failing, unreadable, removed, files, locked,
                   mainVars, brokerVars, cur, localCompleted, localParent, histVars>>

\* The worker notifying the broker whether or not the removal succeeded.
RemoveDirectory_notifies(w) ==
    /\ pc[w] = "RemoveDirectory"
    /\ attempts' = Bump(attempts, cur[w])
    /\ removed' = IF remove_dir(cur[w]) THEN removed \cup {cur[w]} ELSE removed
    /\ pc' = [pc EXCEPT ![w] = "ReportCompletion"]
    /\ UNCHANGED <<cur, localCompleted, localParent>>
    /\ UNCHANGED <<args, fsParent, failing, unreadable, fileVars, mainVars, brokerVars,
                   sentNew, sentMark, recvCount, markCalls, observers, closes>>

\* The worker retrying a failed removal instead of going back to the channel.
RemoveDirectory_retry(w) ==
    /\ pc[w] = "RemoveDirectory"
    /\ attempts' = Bump(attempts, cur[w])
    /\ IF remove_dir(cur[w])
       THEN /\ removed' = removed \cup {cur[w]}
            /\ pc' = [pc EXCEPT ![w] = "ReportCompletion"]
       ELSE UNCHANGED <<removed, pc>>
    /\ UNCHANGED <<cur, localCompleted, localParent>>
    /\ UNCHANGED <<args, fsParent, failing, unreadable, fileVars, mainVars, brokerVars,
                   sentNew, sentMark, recvCount, markCalls, observers, closes>>

\* The worker leaving its loop (`break`) when a removal fails.
RemoveDirectory_break(w) ==
    /\ pc[w] = "RemoveDirectory"
    /\ attempts' = Bump(attempts, cur[w])
    /\ IF remove_dir(cur[w])
       THEN /\ removed' = removed \cup {cur[w]}
            /\ pc' = [pc EXCEPT ![w] = "ReportCompletion"]
            /\ UNCHANGED <<cur, localCompleted, localParent>>
       ELSE /\ pc' = [pc EXCEPT ![w] = "Stopped"]
            /\ cur' = [cur EXCEPT ![w] = NoDir]
            /\ UNCHANGED <<removed, localCompleted, localParent>>
    /\ UNCHANGED <<args, fsParent, failing, unreadable, fileVars, mainVars, brokerVars,
                   sentNew, sentMark, recvCount, markCalls, observers, closes>>

\* worker.rs:45-51  remove_dir_fast; on failure `continue` without notifying
\* the broker.
RemoveDirectory(w) ==
    /\ pc[w] = "RemoveDirectory"
    /\ attempts' = Bump(attempts, cur[w])
    /\ IF remove_dir(cur[w])
       THEN /\ removed' = removed \cup {cur[w]}
            /\ pc' = [pc EXCEPT ![w] = "ReportCompletion"]
            /\ UNCHANGED <<cur, localCompleted, localParent>>
       ELSE /\ BackToAwait(w)
            /\ UNCHANGED removed
    /\ UNCHANGED <<args, fsParent, failing, unreadable, fileVars, mainVars, brokerVars,
                   sentNew, sentMark, recvCount, markCalls, observers, closes>>

\* mark_complete using the value fetch_add returns, without the + 1.
ReportCompletion_old(w) ==
    /\ pc[w] = "ReportCompletion"
    /\ completed' = completed + 1
    /\ localCompleted' = [localCompleted EXCEPT ![w] = completed]
    /\ markCalls' = Bump(markCalls, cur[w])
    /\ observers' = IF completed + 1 = total_dirs THEN observers + 1 ELSE observers
    /\ pc' = [pc EXCEPT ![w] = "mc_check"]
    /\ UNCHANGED <<fsVars, mainVars, child_counts, parent_map, work_tx, total_dirs,
                   countsLock, queue, cur, localParent,
                   sentNew, sentMark, recvCount, attempts, closes>>

\* worker.rs:54 and broker.rs:60  mark_complete is entered; fetch_add(1) + 1.
ReportCompletion(w) ==
    /\ pc[w] = "ReportCompletion"
    /\ completed' = completed + 1
    /\ localCompleted' = [localCompleted EXCEPT ![w] = completed + 1]
    /\ markCalls' = Bump(markCalls, cur[w])
    /\ observers' = IF completed + 1 = total_dirs THEN observers + 1 ELSE observers
    /\ pc' = [pc EXCEPT ![w] = "mc_check"]
    /\ UNCHANGED <<fsVars, mainVars, child_counts, parent_map, work_tx, total_dirs,
                   countsLock, queue, cur, localParent,
                   sentNew, sentMark, recvCount, attempts, closes>>

\* mark_complete closing the channel one completion too early.
mark_complete_check_early(w) ==
    /\ pc[w] = "mc_check"
    /\ IF localCompleted[w] >= total_dirs - 1
       THEN /\ work_tx' = FALSE
            /\ closes' = closes + 1
            /\ BackToAwait(w)
       ELSE /\ UNCHANGED <<work_tx, closes>>
            /\ IF cur[w] \in DOMAIN parent_map
               THEN /\ localParent' = [localParent EXCEPT ![w] = parent_map[cur[w]]]
                    /\ pc' = [pc EXCEPT ![w] = "mc_lock"]
                    /\ UNCHANGED <<cur, localCompleted>>
               ELSE BackToAwait(w)
    /\ UNCHANGED <<fsVars, mainVars, child_counts, parent_map, total_dirs, completed,
                   countsLock, queue, sentNew, sentMark, recvCount, markCalls,
                   attempts, observers>>

\* mark_complete unwrapping the parent lookup: the calling thread panics when
\* the directory has no parent in the map.
mark_complete_check_unwrap(w) ==
    /\ pc[w] = "mc_check"
    /\ IF localCompleted[w] = total_dirs
       THEN /\ work_tx' = FALSE
            /\ closes' = closes + 1
            /\ BackToAwait(w)
       ELSE /\ UNCHANGED <<work_tx, closes>>
            /\ IF cur[w] \in DOMAIN parent_map
               THEN /\ localParent' = [localParent EXCEPT ![w] = parent_map[cur[w]]]
                    /\ pc' = [pc EXCEPT ![w] = "mc_lock"]
                    /\ UNCHANGED <<cur, localCompleted>>
               ELSE /\ pc' = [pc EXCEPT ![w] = "Stopped"]
                    /\ UNCHANGED <<cur, localCompleted, localParent>>
    /\ UNCHANGED <<fsVars, mainVars, child_counts, parent_map, total_dirs, completed,
                   countsLock, queue, sentNew, sentMark, recvCount, markCalls,
                   attempts, observers>>

\* broker.rs:63-73  the completion test (closing the channel), else the
\* parent lookup.
mark_complete_check(w) ==
    /\ pc[w] = "mc_check"
    /\ IF localCompleted[w] = total_dirs
       THEN /\ work_tx' = FALSE
            /\ closes' = closes + 1
            /\ BackToAwait(w)
       ELSE /\ UNCHANGED <<work_tx, closes>>
            /\ IF cur[w] \in DOMAIN parent_map
               THEN /\ localParent' = [localParent EXCEPT ![w] = parent_map[cur[w]]]
                    /\ pc' = [pc EXCEPT ![w] = "mc_lock"]
                    /\ UNCHANGED <<cur, localCompleted>>
               ELSE BackToAwait(w)
    /\ UNCHANGED <<fsVars, mainVars, child_counts, parent_map, total_dirs, completed,
                   countsLock, queue, sentNew, sentMark, recvCount, markCalls,
                   attempts, observers>>

\* broker.rs:74  self.child_counts.lock()
mark_complete_lock(w) ==
    /\ pc[w] = "mc_lock"
    /\ countsLock = 0
    /\ countsLock' = w
    /\ pc' = [pc EXCEPT ![w] = "mc_dec"]
    /\ UNCHANGED <<fsVars, mainVars, child_counts, parent_map, work_tx, total_dirs,
                   completed, queue, cur, localCompleted, localParent, histVars>>

\* mark_complete releasing the parent when one child is still pending.
mark_complete_decrement_eager(w) ==
    /\ pc[w] = "mc_dec"
    /\ countsLock = w
    /\ countsLock' = 0
    /\ IF localParent[w] \in DOMAIN child_counts
       THEN IF child_counts[localParent[w]] - 1 <= 1
            THEN /\ child_counts' = Restrict(child_counts, DOMAIN child_counts \ {localParent[w]})
                 /\ pc' = [pc EXCEPT ![w] = "mc_send"]
                 /\ UNCHANGED <<cur, localCompleted, localParent>>
            ELSE /\ child_counts' = [child_counts EXCEPT ![localParent[w]] = @ - 1]
                 /\ BackToAwait(w)
       ELSE /\ UNCHANGED child_counts
            /\ BackToAwait(w)
    /\ UNCHANGED <<fsVars, mainVars, parent_map, work_tx, total_dirs, completed,
                   queue, histVars>>

\* mark_complete sending the parent after every decrement, zero or not.
mark_complete_decrement_nogate(w) ==
    /\ pc[w] = "mc_dec"
    /\ countsLock = w
    /\ countsLock' = 0
    /\ IF localParent[w] \in DOMAIN child_counts
       THEN /\ child_counts' =
                  IF child_counts[localParent[w]] - 1 = 0
                  THEN Restrict(child_counts, DOMAIN child_counts \ {localParent[w]})
                  ELSE [child_counts EXCEPT ![localParent[w]] = @ - 1]
            /\ pc' = [pc EXCEPT ![w] = "mc_send"]
            /\ UNCHANGED <<cur, localCompleted, localParent>>
       ELSE /\ UNCHANGED child_counts
            /\ BackToAwait(w)
    /\ UNCHANGED <<fsVars, mainVars, parent_map, work_tx, total_dirs, completed,
                   queue, histVars>>

\* mark_complete testing the count for zero before decrementing it.
mark_complete_decrement_testfirst(w) ==
    /\ pc[w] = "mc_dec"
    /\ countsLock = w
    /\ countsLock' = 0
    /\ IF localParent[w] \in DOMAIN child_counts
       THEN IF child_counts[localParent[w]] = 0
            THEN /\ child_counts' = Restrict(child_counts, DOMAIN child_counts \ {localParent[w]})
                 /\ pc' = [pc EXCEPT ![w] = "mc_send"]
                 /\ UNCHANGED <<cur, localCompleted, localParent>>
            ELSE /\ child_counts' = [child_counts EXCEPT ![localParent[w]] = @ - 1]
                 /\ BackToAwait(w)
       ELSE /\ UNCHANGED child_counts
            /\ BackToAwait(w)
    /\ UNCHANGED <<fsVars, mainVars, parent_map, work_tx, total_dirs, completed,
                   queue, histVars>>

\* mark_complete without drop(counts): the guard lives on into the send.
mark_complete_decrement_keeplock(w) ==
    /\ pc[w] = "mc_dec"
    /\ countsLock = w
    /\ IF localParent[w] \in DOMAIN child_counts
       THEN IF child_counts[localParent[w]] - 1 = 0
            THEN /\ child_counts' = Restrict(child_counts, DOMAIN child_counts \ {localParent[w]})
                 /\ pc' = [pc EXCEPT ![w] = "mc_send"]
                 /\ UNCHANGED <<cur, localCompleted, localParent, countsLock>>
            ELSE /\ child_counts' = [child_counts EXCEPT ![localParent[w]] = @ - 1]
                 /\ countsLock' = 0
                 /\ BackToAwait(w)
       ELSE /\ UNCHANGED child_counts
            /\ countsLock' = 0
            /\ BackToAwait(w)
    /\ UNCHANGED <<fsVars, mainVars, parent_map, work_tx, total_dirs, completed,
                   queue, histVars>>

\* mark_complete leaving the parent's entry in the map when it reaches zero.
mark_complete_decrement_noremove(w) ==
    /\ pc[w] = "mc_dec"
    /\ countsLock = w
    /\ countsLock' = 0
    /\ IF localParent[w] \in DOMAIN child_counts
       THEN /\ child_counts' = [child_counts EXCEPT ![localParent[w]] = @ - 1]
            /\ IF child_counts[localParent[w]] - 1 = 0
               THEN /\ pc' = [pc EXCEPT ![w] = "mc_send"]
                    /\ UNCHANGED <<cur, localCompleted, localParent>>
               ELSE BackToAwait(w)
       ELSE /\ UNCHANGED child_counts
            /\ BackToAwait(w)
    /\ UNCHANGED <<fsVars, mainVars, parent_map, work_tx, total_dirs, completed,
                   queue, histVars>>

\* mark_complete dropping the broker's sender as soon as no directory has
\* pending children any more, before the last parent is sent.
mark_complete_decrement_closeonempty(w) ==
    /\ pc[w] = "mc_dec"
    /\ countsLock = w
    /\ countsLock' = 0
    /\ IF localParent[w] \in DOMAIN child_counts
       THEN IF child_counts[localParent[w]] - 1 = 0
            THEN /\ child_counts' = Restrict(child_counts, DOMAIN child_counts \ {localParent[w]})
                 /\ work_tx' = (work_tx /\ DOMAIN child_counts # {localParent[w]})
                 /\ pc' = [pc EXCEPT ![w] = "mc_send"]
                 /\ UNCHANGED <<cur, localCompleted, localParent>>
            ELSE /\ child_counts' = [child_counts EXCEPT ![localParent[w]] = @ - 1]
                 /\ BackToAwait(w)
                 /\ UNCHANGED work_tx
       ELSE /\ UNCHANGED <<child_counts, work_tx>>
            /\ BackToAwait(w)
    /\ UNCHANGED <<fsVars, mainVars, parent_map, total_dirs, completed,
                   queue, histVars>>

\* broker.rs:76-82 and 88-90  decrement the parent's count under the lock;
\* at zero remove the entry; the lock is released by drop(counts) or at the
\* end of the scope.
mark_complete_decrement(w) ==
    /\ pc[w] = "mc_dec"
    /\ countsLock = w
    /\ countsLock' = 0
    /\ IF localParent[w] \in DOMAIN child_counts
       THEN IF child_counts[localParent[w]] - 1 = 0
            THEN /\ child_counts' = Restrict(child_counts, DOMAIN child_counts \ {localParent[w]})
                 /\ pc' = [pc EXCEPT ![w] = "mc_send"]
                 /\ UNCHANGED <<cur, localCompleted, localParent>>
            ELSE /\ child_counts' = [child_counts EXCEPT ![localParent[w]] = @ - 1]
                 /\ BackToAwait(w)
       ELSE /\ UNCHANGED child_counts
            /\ BackToAwait(w)
    /\ UNCHANGED <<fsVars, mainVars, parent_map, work_tx, total_dirs, completed,
                   queue, histVars>>

\* broker.rs:84-87  send the parent if the broker still holds its Sender.
mark_complete_send(w) ==
    /\ pc[w] = "mc_send"
    /\ IF work_tx
       THEN /\ queue' = Append(queue, localParent[w])
            /\ sentMark' = Bump(sentMark, localParent[w])
       ELSE UNCHANGED <<queue, sentMark>>
    /\ BackToAwait(w)
    /\ UNCHANGED <<fsVars, mainVars, child_counts, parent_map, work_tx, total_dirs,
                   completed, countsLock, sentNew, recvCount, markCalls, attempts,
                   observers, closes>>

worker_thread(w) ==
    \/ RecvWork(w)
    \/ RecvClosed(w)
    \/ DeleteContents(w)
    \/ RemoveDirectory(w)
    \/ ReportCompletion(w)
    \/ mark_complete_check(w)
    \/ mark_complete_lock(w)
    \/ mark_complete_decrement(w)
    \/ mark_complete_send(w)

Next ==
    \/ MainStep
    \/ \E w \in Workers : worker_thread(w)

Spec == Init /\ [][Next]_vars

\* Fair scheduling of the main thread and of every worker thread.
Fairness == WF_vars(MainStep) /\ \A w \in Workers : WF_vars(worker_thread(w))

FairSpec == Spec /\ Fairness

\* The fairly scheduled runs with at least one worker thread in which the OS
\* refuses no removal.
HappyInit == Init /\ failing = {} /\ args.threads >= 1

HappySpec == HappyInit /\ [][Next]_vars /\ Fairness

\* The fairly scheduled runs with at least one worker thread over a tree that
\* discovery reads in full; removals may fail.
ReadableInit == Init /\ unreadable = {} /\ args.threads >= 1

ReadableSpec == ReadableInit /\ [][Next]_vars /\ Fairness

\* The files of a layout, all directories together.
RECURSIVE FileCount(_, _)
FileCount(fl, D) ==
    IF D = {} THEN 0
    ELSE Cardinality(fl[Min(D)]) + FileCount(fl, D \ {Min(D)})

\* The ways of putting at most MaxFiles files into the directories D.
FileLayouts(D) ==
    {fl \in [D -> {1..k : k \in 0..MaxFiles}] : FileCount(fl, D) <= MaxFiles}

\* The runs of one worker thread that delete a tree whose directories hold
\* files, some of them locked; enumerating a directory may fail, removing an
\* empty one does not. (The workers never share a directory, so a second
\* worker adds nothing to the pass over one directory's files.)
FilesInit ==
    /\ args \in [pathKind : {"dir"}, dry_run : {FALSE}, threads : {1}]
    /\ \E n \in 1..MaxDirs : fsParent \in FsTrees(n)
    /\ failing = {}
    /\ unreadable \in {S \in SUBSET FsDirs : Cardinality(S) <= MaxUnreadable}
    /\ removed = {}
    /\ files \in FileLayouts(FsDirs)
    /\ locked \in {l \in [FsDirs -> SUBSET (1..MaxFiles)] : \A d \in FsDirs : l[d] \subseteq files[d]}
    /\ tried = [d \in FsDirs |-> {}]
    /\ ProgramInit

FilesSpec == FilesInit /\ [][Next]_vars

----------------------------------------------------------------------------
\* The broker driven directly through its API, as the tests of broker.rs do:
\* a hand-built DirectoryTree, Broker::new, then rx.recv(), drop(tx) and
\* broker.mark_complete(dir) for any directory in any order, one statement
\* after the other.

\* The one thread of a test.
TestThread == 1

\* The test is between two statements: not inside a mark_complete call.
TestIdle == pc[TestThread] \in {"NotSpawned", "AwaitWork"}

\* broker.rs:126-132  the tree the caller hands to Broker::new: a well-formed
\* tree whose leaves are listed in any order.
HandBuiltTrees(fp) ==
    {[discover_tree(fp, {}) EXCEPT !.leaves = l] :
        l \in Perms(Range(discover_tree(fp, {}).leaves))}

BrokerApiInit ==
    /\ args = [pathKind |-> "dir", dry_run |-> FALSE, threads |-> 0]
    /\ \E n \in 1..MaxDirs : fsParent \in FsTrees(n)
    /\ failing = {}
    /\ unreadable = {}
    /\ removed = {}
    /\ files = [d \in FsDirs |-> {}]
    /\ locked = [d \in FsDirs |-> {}]
    /\ tried = [d \in FsDirs |-> {}]
    /\ mainPc = "broker_new"
    /\ gateCalls = 0
    /\ tree \in HandBuiltTrees(fsParent)
    /\ spawned = 0
    /\ callerTx = FALSE
    /\ child_counts = EmptyFn
    /\ parent_map = EmptyFn
    /\ work_tx = FALSE
    /\ total_dirs = 0
    /\ completed = 0
    /\ countsLock = 0
    /\ queue = <<>>
    /\ pc = [w \in Workers |-> "NotSpawned"]
    /\ cur = [w \in Workers |-> NoDir]
    /\ localCompleted = [w \in Workers |-> 0]
    /\ localParent = [w \in Workers |-> NoDir]
    /\ sentNew = Zeros
    /\ sentMark = Zeros
    /\ recvCount = Zeros
    /\ markCalls = Zeros
    /\ attempts = Zeros
    /\ observers = 0
    /\ closes = 0

\* broker.rs:137-138  rx.recv() by the caller.
test_recv ==
    /\ mainPc = "spawn"
    /\ TestIdle
    /\ queue # <<>>
    /\ queue' = Tail(queue)
    /\ recvCount' = Bump(recvCount, Head(queue))
    /\ UNCHANGED <<fsVars, mainVars, child_counts, parent_map, work_tx, total_dirs,
                   completed, countsLock, workerVars,
                   sentNew, sentMark, markCalls, attempts, observers, closes>>

\* broker.rs:140  drop(tx) by the caller.
test_drop_tx ==
    /\ mainPc = "spawn"
    /\ TestIdle
    /\ callerTx
    /\ callerTx' = FALSE
    /\ UNCHANGED <<fsVars, mainPc, gateCalls, tree, spawned, brokerVars, workerVars, histVars>>

\* Calls of mark_complete entered so far.
CallsMade == completed + Cardinality({w \in Workers : pc[w] = "ReportCompletion"})

\* broker.rs:143  the test invokes broker.mark_complete(d).
test_mark_complete(d) ==
    /\ mainPc = "spawn"
    /\ TestIdle
    /\ CallsMade < MaxCalls
    /\ cur' = [cur EXCEPT ![TestThread] = d]
    /\ pc' = [pc EXCEPT ![TestThread] = "ReportCompletion"]
    /\ UNCHANGED <<fsVars, mainVars, brokerVars, localCompleted, localParent, histVars>>

\* broker.rs:58-91  Broker::mark_complete, step by step.
mark_complete(w) ==
    \/ ReportCompletion(w)
    \/ mark_complete_check(w)
    \/ mark_complete_lock(w)
    \/ mark_complete_decrement(w)
    \/ mark_complete_send(w)

BrokerApiNext ==
    \/ Broker_new
    \/ test_recv
    \/ test_drop_tx
    \/ \E d \in AllDirs : test_mark_complete(d)
    \/ mark_complete(TestThread)

BrokerApiSpec == BrokerApiInit /\ [][BrokerApiNext]_vars

----------------------------------------------------------------------------
\* Vocabulary of the properties.

\* main holds the tree discover_tree returned.
Discovered == mainPc \notin {"start", "exit_error", "scan"}

\* The broker has been constructed (main is past Broker::new).
Running == mainPc \in {"spawn", "join", "done"}

Sent(d) == sentNew[d] + sentMark[d]

\* Directories of the tree whose removal can never succeed: the OS refuses
\* it, or a subdirectory that discovery never saw stays inside, or a file that
\* cannot be deleted does.
Doomed ==
    {d \in TreeDirs : \/ d \in failing
                      \/ ~(FsChildren(d) \subseteq TreeDirs)
                      \/ files[d] \cap locked[d] # {}
                      \/ d \in unreadable /\ files[d] # {}}

AllStopped == \A w \in 1..args.threads : pc[w] = "Stopped"

Busy(w) == cur[w] # NoDir

\* The tree is a linear chain: every directory with children has exactly one.
IsChain == \A p \in DOMAIN tree.children : Len(tree.children[p]) = 1

\* Directories sent on the channel for which mark_complete has not been called.
InFlight == {d \in AllDirs : Sent(d) >= 1 /\ markCalls[d] = 0}

\* The mark_complete call for c has performed its decrement of the parent's
\* count (it was called and is no longer before or in the critical section).
Decremented(c) ==
    /\ markCalls[c] >= 1
    /\ \A w \in Workers : cur[w] = c => pc[w] \notin {"mc_check", "mc_lock", "mc_dec"}

\* Calls of mark_complete that have seen p's count reach zero: those now
\* about to send p, and those that have sent it.
ZeroSeen(p) ==
    sentMark[p] + Cardinality({w \in Workers : pc[w] = "mc_send" /\ localParent[w] = p})

\* A directory of the tree with no doomed directory among itself and its
\* descendants.
Clean(d) == d \in TreeDirs /\ ({d} \cup Descendants(d)) \cap Doomed = {}

\* broker.rs:94-96  Broker::pending_count
pending_count == Cardinality(DOMAIN child_counts)

\* The worker is inside mark_complete, before it returns.
InMarkComplete(w) == pc[w] \in {"mc_check", "mc_lock", "mc_dec", "mc_send"}

\* Thread w takes a step of a mark_complete call, from its entry on.
CallStep(w) ==
    /\ pc[w] = "ReportCompletion" \/ InMarkComplete(w)
    /\ pc'[w] # pc[w]

\* The call thread w is making does not bring the counter to the total.
BelowTotal(w) ==
    IF pc[w] = "ReportCompletion" THEN completed + 1 # total_dirs
    ELSE localCompleted[w] # total_dirs

----------------------------------------------------------------------------
\* C1: bottom-up ordering. A directory that has been placed on, or received
\* from, the work channel has had mark_complete called for every one of its
\* children; what Broker::new dispatches has no children.
C1_BottomUp ==
    \A d \in AllDirs :
        (Sent(d) > 0 \/ recvCount[d] > 0) =>
            /\ \A c \in TreeChildren(d) : markCalls[c] >= 1
            /\ sentNew[d] > 0 => TreeChildren(d) = {}

\* A directory with two children has been received by a worker.
C1_Witness ==
    \E d \in AllDirs : Cardinality(TreeChildren(d)) >= 2 /\ recvCount[d] = 1

\* C2: at-most-once enqueue. Counting the sends of Broker::new and those of
\* mark_complete together, no directory is sent more than once, whether or
\* not removals fail.
C2_AtMostOnce ==
    \A d \in AllDirs : Sent(d) <= 1

\* A removal has failed, and a parent was enqueued by mark_complete.
C2_Witness ==
    /\ \E f \in failing : attempts[f] = 1
    /\ \E d \in AllDirs : sentMark[d] = 1 /\ sentNew[d] = 0
    /\ \E d \in AllDirs : sentNew[d] = 1 /\ sentMark[d] = 0

\* C3: full coverage. With at least one worker and no failing removal, no
\* directory is ever received twice, nothing outside the tree is received,
\* and eventually every directory of the tree has been received exactly once.
C3_FullCoverage ==
    /\ [](\A d \in AllDirs : recvCount[d] <= (IF d \in TreeDirs THEN 1 ELSE 0))
    /\ (Running /\ args.threads >= 1 /\ Doomed = {})
          ~> [](\A d \in TreeDirs : recvCount[d] = 1)

\* A failure-free run over a tree of the largest size in which everything has
\* been received.
C3_Witness ==
    /\ Running /\ args.threads >= 1 /\ Doomed = {}
    /\ Cardinality(TreeDirs) = MaxDirs
    /\ \A d \in TreeDirs : recvCount[d] = 1

\* C4: termination on the happy path. With at least one worker, no failing
\* removal and fair scheduling, eventually the counter equals the total, the
\* broker's sender is dropped, every worker is Stopped and main has returned
\* from joining them.
C4_Termination ==
    (Running /\ args.threads >= 1 /\ Doomed = {})
        ~> [](completed = total_dirs /\ Disconnected /\ AllStopped /\ mainPc = "done")

\* main has joined two workers after a complete run.
C4_Witness ==
    /\ mainPc = "done" /\ args.threads = MaxWorkers /\ AllStopped
    /\ completed = total_dirs /\ total_dirs >= 2

\* C5: the completed counter never decreases; at most one mark_complete call
\* sees its increment return total_dirs, and one has exactly when the counter
\* equals the total; the sender is dropped only by that call; once it is
\* dropped nothing is enqueued or received any more.
C5_CompletionOnce ==
    /\ [][completed' >= completed]_vars
    /\ [](Running => /\ observers <= 1
                     /\ (completed = total_dirs <=> observers = 1)
                     /\ closes <= observers
                     /\ (~work_tx <=> closes = 1))
    /\ [][closes >= 1 => UNCHANGED <<sentNew, sentMark, recvCount, queue>>]_vars

\* The last mark_complete of a run over three directories has seen the total
\* and dropped the broker's sender.
C5_Witness ==
    /\ closes = 1 /\ observers = 1 /\ ~work_tx
    /\ completed = total_dirs /\ total_dirs >= 3

\* C6: stall on removal failure. When the tree holds a directory f whose
\* removal always fails, the counter stays below the total, the broker keeps
\* its sender, no strict ancestor of f is sent or received, and no worker
\* reaches Stopped.
C6_Stall ==
    (Running /\ Doomed # {}) =>
        /\ completed < total_dirs
        /\ work_tx
        /\ closes = 0
        /\ \A f \in Doomed : \A a \in Ancestors(f) : Sent(a) = 0 /\ recvCount[a] = 0
        /\ \A w \in Workers : pc[w] # "Stopped"

\* The removal of a directory below the root has failed, its sibling has been
\* removed and reported, and the workers are back waiting on the channel.
C6_Witness ==
    /\ mainPc = "join"
    /\ \E f \in failing : attempts[f] = 1 /\ Ancestors(f) # {}
    /\ queue = <<>>
    /\ args.threads = MaxWorkers
    /\ \A w \in 1..args.threads : pc[w] = "AwaitWork"
    /\ completed >= 1

\* C7: a run in which some removal fails still completes: eventually all
\* workers have stopped and main has returned.
C7_CompletesDespiteFailure ==
    (Running /\ args.threads >= 1 /\ Doomed # {}) ~> (AllStopped /\ mainPc = "done")

\* C8: disjoint work. No two workers are processing the same directory at the
\* same time.
C8_DisjointWork ==
    \A w1, w2 \in Workers : (w1 # w2 /\ Busy(w1) /\ Busy(w2)) => cur[w1] # cur[w2]

\* Two workers are inside mark_complete for two siblings at the same time.
C8_Witness ==
    \E w1, w2 \in Workers :
        /\ w1 # w2
        /\ pc[w1] \in {"mc_check", "mc_lock", "mc_dec", "mc_send"}
        /\ pc[w2] \in {"mc_check", "mc_lock", "mc_dec", "mc_send"}
        /\ TreeParent(cur[w1]) = TreeParent(cur[w2])

\* C9: consistent intermediate filesystem state. The removed directories are
\* closed under descendants, and removal has been attempted at most once per
\* directory.
C9_ConsistentFs ==
    /\ \A d \in removed : \A x \in FsDirs : (fsParent[x] = d) => x \in removed
    /\ \A d \in AllDirs : attempts[d] <= 1

\* Part of the tree is gone: a directory with a subdirectory has been removed
\* while the root is still there.
C9_Witness ==
    /\ \E d \in removed : FsChildren(d) # {}
    /\ 1 \notin removed
    /\ \E d \in AllDirs : attempts[d] = 1 /\ d \notin removed

\* C10: the safety gate has been invoked exactly once by the time tree
\* discovery has run (and so before any broker construction or deletion).
C10_GateBeforeDiscovery ==
    mainPc \in {"dry_done", "broker_new", "spawn", "join", "done"} => gateCalls = 1

\* C11: main reports "Deletion complete!" only after every worker it was
\* asked to spawn has been spawned, has reached Stopped and has been joined.
C11_SuccessAfterJoin ==
    mainPc = "done" =>
        /\ spawned = args.threads
        /\ \A w \in 1..args.threads : pc[w] = "Stopped"
        /\ \A w \in Workers : pc[w] \in {"Stopped", "NotSpawned"}

\* main has printed its final message in a run with the largest pool.
C11_Witness ==
    mainPc = "done" /\ spawned = MaxWorkers /\ \A d \in TreeDirs : recvCount[d] = 1

\* C12: right after Broker::new, pending_count() is dirs.len() - leaves.len(),
\* the number of directories with at least one child; once the counter has
\* reached the total of a run, pending_count() is 0.
C12_PendingCount ==
    /\ (mainPc = "spawn" /\ spawned = 0) =>
          /\ pending_count = Len(tree.dirs) - Len(tree.leaves)
          /\ pending_count = Cardinality({d \in TreeDirs : TreeChildren(d) # {}})
    /\ (Running /\ completed = total_dirs) => pending_count = 0

\* A run over a tree with two parents has completed.
C12_Witness ==
    /\ Running /\ completed = total_dirs
    /\ Len(tree.dirs) - Len(tree.leaves) >= 2
    /\ mainPc = "done"

\* C13: single-directory tree. The root is dispatched once, by Broker::new,
\* and nothing else ever is; the mark_complete of the root sees the counter
\* equal the total and, once past its test, has dropped the broker's sender.
C13_SingleDirectory ==
    (Running /\ TreeDirs = {1}) =>
        /\ total_dirs = 1
        /\ sentNew[1] = 1
        /\ \A d \in AllDirs : sentMark[d] = 0 /\ (d # 1 => sentNew[d] = 0)
        /\ Len(queue) + recvCount[1] = 1
        /\ markCalls[1] <= 1
        /\ markCalls[1] = 1 => (completed = total_dirs /\ observers = 1)
        /\ (markCalls[1] = 1 /\ \A w \in Workers : ~InMarkComplete(w)) =>
               (~work_tx /\ closes = 1 /\ queue = <<>>)

\* The only directory has been removed and reported, and the channel closed.
C13_Witness ==
    /\ Running /\ TreeDirs = {1}
    /\ markCalls[1] = 1 /\ 1 \in removed
    /\ ~work_tx /\ closes = 1

\* C14: linear chain. At every moment at most one directory has been
\* dispatched without mark_complete having been called for it, and a
\* directory is on the channel, or was received, only after the mark_complete
\* of the directory just below it.
C14_ChainSerial ==
    (Running /\ IsChain) =>
        /\ Cardinality(InFlight) <= 1
        /\ \A p \in DOMAIN tree.children :
               (Sent(p) >= 1 \/ recvCount[p] >= 1) => markCalls[tree.children[p][1]] = 1

\* The root of a chain of the largest depth is on the channel while two
\* workers are waiting.
C14_Witness ==
    /\ Running /\ IsChain /\ Len(tree.dirs) = MaxDirs
    /\ queue = <<1>>
    /\ args.threads = MaxWorkers
    /\ \A w \in Workers : pc[w] = "AwaitWork"

\* C15: a dry run stops after tree discovery. The broker is never
\* constructed, no worker is spawned, nothing is sent, received, attempted
\* or removed.
C15_DryRun ==
    args.dry_run =>
        /\ mainPc \in {"start", "exit_error", "scan", "dry_done"}
        /\ ~work_tx /\ ~callerTx /\ total_dirs = 0
        /\ child_counts = EmptyFn /\ parent_map = EmptyFn /\ queue = <<>>
        /\ spawned = 0
        /\ \A w \in Workers : pc[w] = "NotSpawned"
        /\ removed = {}
        /\ \A d \in AllDirs : attempts[d] = 0 /\ Sent(d) = 0 /\ recvCount[d] = 0

\* A dry run has returned after discovering a tree of the largest size.
C15_Witness ==
    args.dry_run /\ mainPc = "dry_done" /\ Len(tree.dirs) = MaxDirs

\* C17: last child wins. For a parent with two or more children, in every
\* interleaving at most one mark_complete call sees its count reach zero and
\* sends it, and once the calls of all its children have decremented exactly
\* one has.
C17_LastChildWins ==
    Running =>
        \A p \in DOMAIN tree.children :
            Len(tree.children[p]) >= 2 =>
                /\ ZeroSeen(p) <= 1
                /\ sentMark[p] <= 1
                /\ (\A c \in TreeChildren(p) : Decremented(c)) => ZeroSeen(p) = 1
                /\ ZeroSeen(p) = 1 => \A c \in TreeChildren(p) : Decremented(c)

\* Two workers are inside mark_complete for two siblings, both waiting for
\* or about to take the lock on the counts.
C17_Witness ==
    \E w1, w2 \in Workers :
        /\ w1 # w2
        /\ pc[w1] = "mc_lock" /\ pc[w2] = "mc_lock"
        /\ localParent[w1] = localParent[w2]
        /\ cur[w1] # cur[w2]

\* C18: lock discipline. The pending-count map changes only in a step of the
\* thread holding its lock; the lock is held only inside the
\* lookup/decrement/remove section, so a thread that is about to send, or
\* doing anything else, does not hold it.
C18_LockDiscipline ==
    /\ [][(Running /\ child_counts' # child_counts) =>
             \E w \in Workers : countsLock = w /\ pc[w] = "mc_dec" /\ pc'[w] # "mc_dec"]_vars
    /\ [](\A w \in Workers : countsLock = w <=> pc[w] = "mc_dec")
    /\ [][\A d \in AllDirs : sentMark'[d] # sentMark[d] =>
             \E w \in Workers : pc[w] = "mc_send" /\ pc'[w] # "mc_send"
                                 /\ countsLock # w /\ d \notin DOMAIN child_counts]_vars

\* A worker is about to send a parent of two children, the lock being free.
C18_Witness ==
    \E w \in Workers :
        /\ pc[w] = "mc_send" /\ countsLock = 0
        /\ Cardinality(TreeChildren(localParent[w])) = 2

\* C19: pending-count invariant. A directory is in the pending-count map
\* exactly while some child's mark_complete has not yet decremented it, and
\* its stored count is then the number of such children (at least 1).
C19_PendingInvariant ==
    Running =>
        /\ DOMAIN child_counts \subseteq DOMAIN tree.children
        /\ \A p \in DOMAIN tree.children :
              LET n == Cardinality({c \in TreeChildren(p) : ~Decremented(c)})
              IN /\ p \in DOMAIN child_counts <=> n >= 1
                 /\ p \in DOMAIN child_counts => (child_counts[p] = n /\ child_counts[p] >= 1)

\* Of two children one has decremented: the entry is still there, at 1.
C19_Witness ==
    \E p \in DOMAIN child_counts :
        /\ Len(tree.children[p]) = 2
        /\ child_counts[p] = 1
        /\ \E c \in TreeChildren(p) : Decremented(c)

\* C20: after a failed removal the worker goes back to AwaitWork without
\* calling mark_complete (no directory is reported unless it was removed),
\* and with at least one worker every directory that has no failing directory
\* among itself and its descendants is eventually received, removed and
\* reported complete.
C20_ProgressAfterFailure ==
    /\ [][\A w \in Workers :
             (pc[w] = "RemoveDirectory" /\ pc'[w] # "RemoveDirectory" /\ ~remove_dir(cur[w]))
                 => (pc'[w] = "AwaitWork" /\ markCalls' = markCalls /\ completed' = completed)]_vars
    /\ [](\A d \in AllDirs : markCalls[d] >= 1 => d \in removed)
    /\ (Running /\ args.threads >= 1)
          ~> (\A d \in AllDirs : Clean(d) =>
                  (recvCount[d] = 1 /\ d \in removed /\ markCalls[d] = 1))

\* A single worker has met the failing first leaf and has gone on to remove
\* and report its sibling.
C20_Witness ==
    /\ args.threads = 1
    /\ tree.leaves = <<2, 3>>
    /\ 2 \in failing /\ attempts[2] = 1
    /\ 3 \in removed /\ markCalls[3] = 1

\* C21 as stated: a mark_complete call for a directory unknown to the
\* dependency graph, or for a parentless directory while the counter is below
\* the total, enqueues nothing and leaves the pending-child counts, the
\* completed counter and the channel's open/closed status unchanged.
C21_NoOpAsStated ==
    [][\A w \in Workers :
          (/\ CallStep(w)
           /\ \/ cur[w] \notin TreeDirs
              \/ cur[w] \notin DOMAIN parent_map /\ completed < total_dirs)
              => UNCHANGED <<queue, child_counts, completed, work_tx>>]_vars

\* C21: a mark_complete call for a directory that has no parent in the
\* dependency graph (unknown to it, or the root), whose increment does not
\* bring the counter to the total, increments the completed counter by one,
\* then returns without crashing: it enqueues nothing and leaves the
\* pending-child counts and the channel's open/closed status unchanged.
C21_SilentNoOp ==
    [][\A w \in Workers :
          (CallStep(w) /\ cur[w] \notin DOMAIN parent_map /\ BelowTotal(w))
              => /\ UNCHANGED <<queue, child_counts, work_tx>>
                 /\ completed' = completed + (IF pc[w] = "ReportCompletion" THEN 1 ELSE 0)
                 /\ pc[w] = "mc_check" => pc'[w] = "AwaitWork"]_vars

\* A call for a directory that is not in the tree has returned: the seeded
\* leaf is still queued, the root's count is untouched, the channel is open.
C21_Witness ==
    /\ \E d \in AllDirs \ TreeDirs : markCalls[d] = 1
    /\ completed = 1 /\ total_dirs = 2
    /\ TestIdle /\ pc[TestThread] = "AwaitWork"
    /\ work_tx
    /\ queue = tree.leaves /\ queue # <<>>
    /\ child_counts = [p \in DOMAIN tree.children |-> Len(tree.children[p])]

\* C22: initial seeding. After Broker::new and before any mark_complete call
\* the channel holds the leaves not yet received, in the order tree.leaves
\* supplied them, and nothing else (all of tree.leaves when nothing has been
\* received); what the consumer has received is the leading part of
\* tree.leaves, each leaf once, and no other directory.
C22_InitialSeeding ==
    (mainPc = "spawn" /\ CallsMade = 0) =>
        /\ Len(queue) <= Len(tree.leaves)
        /\ queue = SubSeq(tree.leaves, Len(tree.leaves) - Len(queue) + 1, Len(tree.leaves))
        /\ \A i \in 1..Len(tree.leaves) :
               recvCount[tree.leaves[i]] = (IF i <= Len(tree.leaves) - Len(queue) THEN 1 ELSE 0)
        /\ \A d \in AllDirs \ Range(tree.leaves) : recvCount[d] = 0

\* The leaves were supplied as <<3, 2>>; the consumer has received 3 and 2 is
\* next, no mark_complete call having been made.
C22_Witness ==
    /\ mainPc = "spawn" /\ CallsMade = 0
    /\ tree.leaves = <<3, 2>>
    /\ recvCount[3] = 1 /\ recvCount[2] = 0
    /\ queue = <<2>>

\* C23: best-effort contents clearing. DeleteContents is always followed by
\* RemoveDirectory for the same directory, also when the enumeration failed;
\* and when the enumeration did not fail, delete_file_fast has by then been
\* called on every file of the directory, the ones after a failed deletion
\* included.
C23_BestEffort ==
    /\ [][\A w \in Workers :
             (pc[w] = "DeleteContents" /\ pc'[w] # pc[w])
                 => (pc'[w] = "RemoveDirectory" /\ cur'[w] = cur[w])]_vars
    /\ [](\A w \in Workers :
             (pc[w] = "RemoveDirectory" /\ cur[w] \notin unreadable)
                 => tried[cur[w]] = files[cur[w]])
    /\ [](\A d \in FsDirs : attempts[d] = 1 => (d \in unreadable \/ tried[d] = files[d]))

\* Directory 2 holds two files, one of them locked: both were tried and the
\* removal was attempted. Directory 3 could not be enumerated: none of its
\* files was tried, and its removal was attempted all the same.
C23_Witness ==
    /\ FsDirs = {1, 2, 3}
    /\ Cardinality(files[2]) = 2 /\ Cardinality(locked[2]) = 1
    /\ tried[2] = files[2] /\ attempts[2] = 1 /\ 2 \notin removed
    /\ 3 \in unreadable /\ tried[3] = {} /\ attempts[3] = 1

\* C24: the tree discover_tree returns satisfies the data-model invariant,
\* also when enumerating some directory failed: every child listed in
\* children is in dirs; the keys of children and the leaves are disjoint and
\* together are dirs, so dirs.len() = leaves.len() + children.len(); a
\* directory whose enumeration failed is a leaf, and nothing below it on disk
\* is in the tree.
C24_TreeInvariant ==
    Discovered =>
        /\ \A p \in DOMAIN tree.children : Range(tree.children[p]) \subseteq TreeDirs
        /\ DOMAIN tree.children \cap Range(tree.leaves) = {}
        /\ DOMAIN tree.children \cup Range(tree.leaves) = TreeDirs
        /\ Len(tree.dirs) = Len(tree.leaves) + Cardinality(DOMAIN tree.children)
        /\ \A u \in unreadable \cap TreeDirs : u \in Range(tree.leaves)
        /\ \A x \in TreeDirs : fsParent[x] # NoDir =>
               (fsParent[x] \in TreeDirs /\ fsParent[x] \notin unreadable)

\* Discovery could not read a directory that has a subdirectory: the tree
\* holds it, as a leaf under its parent, and not the subdirectory.
C24_Witness ==
    /\ Discovered
    /\ \E u \in unreadable :
           /\ FsChildren(u) # {}
           /\ u \in Range(tree.leaves)
           /\ FsChildren(u) \cap TreeDirs = {}
           /\ \E p \in DOMAIN tree.children : u \in Range(tree.children[p])

\* C25: whenever main has printed its final success message, the completed
\* counter equals total_dirs and every directory of the tree has been
\* removed, whatever the number of worker threads, 0 included.
C25_SuccessMeansDeleted ==
    mainPc = "done" => (completed = total_dirs /\ TreeDirs \subseteq removed)

\* C26: Broker::new leaves two senders alive, the broker's own and the clone
\* it returns; a worker's recv() reports the channel closed, and the worker
\* stops, only once both have been dropped; and in a failure-free run every
\* worker eventually is Stopped, whether main's drop(tx) or the broker's close
\* on the final mark_complete comes first.
C26_TwoSenders ==
    /\ [][(mainPc = "broker_new" /\ mainPc' = "spawn") => (work_tx' /\ callerTx')]_vars
    /\ [][\A w \in Workers :
             (pc[w] # "Stopped" /\ pc'[w] = "Stopped")
                 => (~work_tx /\ ~callerTx /\ queue = <<>>)]_vars
    /\ (Running /\ args.threads >= 1 /\ Doomed = {}) ~> AllStopped

\* The broker has closed on the final mark_complete while main still holds
\* its clone: the worker that closed is back at recv() and waits.
C26_Witness ==
    /\ completed = total_dirs /\ closes = 1
    /\ ~work_tx /\ callerTx
    /\ queue = <<>>
    /\ \E w \in Workers : pc[w] = "AwaitWork"

\* C27: no lost enqueue. In a run driven by the worker threads, a
\* mark_complete call that has brought its parent's count to zero finds the
\* broker's sender still present when it comes to send: no concurrent call has
\* closed the channel in between, and the parent is appended to the channel.
C27_NoLostEnqueue ==
    /\ [](\A w \in Workers : pc[w] = "mc_send" => work_tx)
    /\ [][\A w \in Workers :
             (pc[w] = "mc_send" /\ pc'[w] # "mc_send")
                 => /\ queue' = Append(queue, localParent[w])
                    /\ sentMark'[localParent[w]] = sentMark[localParent[w]] + 1]_vars

\* With two workers running, the two children of a directory have been
\* completed and the call that saw the count reach zero has placed the parent
\* on the channel, which is still open.
C27_Witness ==
    /\ spawned >= 2
    /\ work_tx
    /\ \E p \in TreeDirs :
           /\ Cardinality(TreeChildren(p)) = 2
           /\ sentMark[p] = 1
           /\ queue = <<p>>

\* C28: in a run driven by the worker threads the completed counter never
\* exceeds total_dirs nor the number of directories physically removed: the
\* counter is the number of mark_complete calls, each directory has at most
\* one, and only after its removal succeeded.
C28_CounterBound ==
    Running =>
        /\ completed <= total_dirs
        /\ completed <= Cardinality(removed)
        /\ \A d \in AllDirs : markCalls[d] <= 1 /\ (markCalls[d] = 1 => d \in removed)
        /\ completed = Cardinality({d \in AllDirs : markCalls[d] = 1})

\* One directory has been counted and a second one is removed but not yet
\* counted: its worker is about to enter mark_complete.
C28_Witness ==
    /\ completed = 1
    /\ Cardinality(removed) = 2
    /\ \E w \in Workers : pc[w] = "ReportCompletion" /\ cur[w] \in removed

====
